---- MODULE Spec2Model ----
(***************************************************************************)
(* Model of the Micromamba environment selector extension (extension.ts):  *)
(* configuration discovery and its cache, the registry catalog, the picker *)
(* classification, and environment activation with its sinks.              *)
(*                                                                         *)
(* Text is modelled as a sequence of symbols.  A symbol is one character   *)
(* ("=", "/", " ", "\n", ...) or a run of ordinary characters that the     *)
(* code never looks inside ("CONDA_PREFIX", "envA").                       *)
(***************************************************************************)
EXTENDS Integers, Sequences, FiniteSets, TLC

VARIABLES
    isWin,              \* os.platform() === 'win32'
    settings,           \* workspace configuration 'micromamba-envs'
    workspaceFolders,   \* vscode.workspace.workspaceFolders: fsPath of each folder
    registry,           \* environments.txt: [exists, content]
    shellEnv,           \* MAMBA_ROOT_PREFIX and MAMBA_EXE as the user's shell has them
    envDump,            \* what the environment manager prints for an environment
    hasPython,          \* the environments hold an interpreter entry point
    envWritable,        \* fs.writeFile on <workspace>/.env succeeds
    cachedMambaConfig,  \* module-level singleton
    shellCalls,         \* number of fetchMambaVarsFromShell invocations so far
    selects,            \* selectEnvironment calls, by id
    acts,               \* setEnvironment calls, by id
    envCollection,      \* context.environmentVariableCollection
    envFile,            \* <workspace>/.env: [exists, content]
    interpreterPath,    \* python.defaultInterpreterPath (workspace target)
    activateEnvironment, \* python.terminal.activateEnvironment (workspace target)
    storedPath,         \* workspaceState 'currentMicromambaEnvPath'
    statusText,         \* myStatusBarItem.text
    booted,             \* activate() has run
    fnIn,               \* input of the function under study (function specs)
    fnOut               \* its result

vars == <<isWin, settings, workspaceFolders, registry, shellEnv, envDump, hasPython,
          envWritable,
          cachedMambaConfig,
          shellCalls, selects, acts, envCollection, envFile, interpreterPath,
          activateEnvironment, storedPath, statusText, booted, fnIn, fnOut>>

\* An optional value (undefined / null in the code) is a sequence of at most
\* one element.  A string setting that is unset reads as the empty string.
None == <<>>

Some(x) == <<x>>

(***************************************************************************)
(* JavaScript string primitives used by the code.                          *)
(***************************************************************************)
IsNL(c) == c \in {"\n", "\r"}

IsSpace(c) == c \in {" ", "\t", "\n", "\r"}

\* String.prototype.split(/[\r\n]+/): cut at every maximal run of CR/LF.
RECURSIVE SplitFrom(_, _, _, _)
SplitFrom(s, i, cur, inRun) ==
    IF i > Len(s) THEN <<cur>>
    ELSE IF IsNL(s[i])
         THEN IF inRun THEN SplitFrom(s, i + 1, cur, TRUE)
              ELSE <<cur>> \o SplitFrom(s, i + 1, <<>>, TRUE)
         ELSE SplitFrom(s, i + 1, Append(cur, s[i]), FALSE)

splitNewlines(s) == SplitFrom(s, 1, <<>>, FALSE)

RECURSIVE trimStart(_)
trimStart(s) == IF s # <<>> /\ IsSpace(Head(s)) THEN trimStart(Tail(s)) ELSE s

RECURSIVE trimEnd(_)
trimEnd(s) ==
    IF s # <<>> /\ IsSpace(s[Len(s)]) THEN trimEnd(SubSeq(s, 1, Len(s) - 1)) ELSE s

trim(s) == trimEnd(trimStart(s))

includes(s, c) == \E i \in 1..Len(s) : s[i] = c

\* String.prototype.indexOf, 1-based; 0 when absent.
indexOf(s, c) ==
    IF includes(s, c)
    THEN CHOOSE i \in 1..Len(s) : s[i] = c /\ \A j \in 1..(i - 1) : s[j] # c
    ELSE 0

startsWith(s, p) == Len(p) <= Len(s) /\ SubSeq(s, 1, Len(p)) = p

LowerSym(c) ==
    CASE c = "A" -> "a"
      [] c = "W" -> "w"
      [] c = "R" -> "r"
      [] OTHER -> c

toLowerCase(s) == [i \in 1..Len(s) |-> LowerSym(s[i])]

\* String.prototype.replace(/"/g, '\\"')
RECURSIVE escapeQuotes(_)
escapeQuotes(s) ==
    IF s = <<>> THEN <<>>
    ELSE (IF Head(s) = "\"" THEN <<"\\", "\"">> ELSE <<Head(s)>>)
         \o escapeQuotes(Tail(s))

(***************************************************************************)
(* Node's path module, for paths without drive letter or UNC prefix.       *)
(***************************************************************************)
sep == IF isWin THEN "\\" ELSE "/"

IsSep(c) == IF isWin THEN c \in {"/", "\\"} ELSE c = "/"

\* the segments between separators, empty ones included
RECURSIVE SegsFrom(_, _, _)
SegsFrom(s, i, cur) ==
    IF i > Len(s) THEN <<cur>>
    ELSE IF IsSep(s[i]) THEN <<cur>> \o SegsFrom(s, i + 1, <<>>)
         ELSE SegsFrom(s, i + 1, Append(cur, s[i]))

Segments(s) == SegsFrom(s, 1, <<>>)

RECURSIVE JoinSegs(_)
JoinSegs(segs) ==
    IF segs = <<>> THEN <<>>
    ELSE IF Len(segs) = 1 THEN segs[1]
         ELSE segs[1] \o <<sep>> \o JoinSegs(Tail(segs))

DotDot == <<".", ".">>

\* normalizeString: drop "" and ".", resolve ".."
RECURSIVE normalizeString(_, _, _)
normalizeString(segs, acc, allowAboveRoot) ==
    IF segs = <<>> THEN acc
    ELSE LET g == Head(segs)
             rest == Tail(segs)
         IN  IF g = <<>> \/ g = <<".">>
             THEN normalizeString(rest, acc, allowAboveRoot)
             ELSE IF g = DotDot
                  THEN IF acc # <<>> /\ acc[Len(acc)] # DotDot
                       THEN normalizeString(rest, SubSeq(acc, 1, Len(acc) - 1),
                                            allowAboveRoot)
                       ELSE IF allowAboveRoot
                            THEN normalizeString(rest, Append(acc, g), allowAboveRoot)
                            ELSE normalizeString(rest, acc, allowAboveRoot)
                  ELSE normalizeString(rest, Append(acc, g), allowAboveRoot)

\* path.normalize once normalizeString has produced `body`
normalizeResult(body, isAbsolute, trailingSeparator) ==
    IF body = <<>>
    THEN IF isAbsolute THEN <<sep>>
         ELSE IF trailingSeparator THEN <<".", sep>> ELSE <<".">>
    ELSE (IF isAbsolute THEN <<sep>> ELSE <<>>) \o body
         \o (IF trailingSeparator THEN <<sep>> ELSE <<>>)

pathNormalize(p) ==
    IF p = <<>> THEN <<".">>
    ELSE normalizeResult(
             JoinSegs(normalizeString(Segments(p), <<>>, ~IsSep(p[1]))),
             IsSep(p[1]), IsSep(p[Len(p)]))

RECURSIVE StripTrailingSeps(_)
StripTrailingSeps(p) ==
    IF p # <<>> /\ IsSep(p[Len(p)])
    THEN StripTrailingSeps(SubSeq(p, 1, Len(p) - 1)) ELSE p

Last(s) == s[Len(s)]

basename(p) == Last(Segments(StripTrailingSeps(p)))

\* path.join(a, b1, ..): join with the separator, then normalize
pathJoin(parts) == pathNormalize(JoinSegs(parts))

\* normalize (extension.ts): path.normalize, lower-cased on win32
foldCase(norm_path) == IF isWin THEN toLowerCase(norm_path) ELSE norm_path

normalize(raw_path) == foldCase(pathNormalize(raw_path))

(***************************************************************************)
(* A JavaScript object with string keys: the <<key, value>> pairs in       *)
(* insertion order (the order Object.entries returns).                     *)
(***************************************************************************)
ObjHas(o, k) == \E i \in 1..Len(o) : o[i][1] = k

ObjGet(o, k) == o[CHOOSE i \in 1..Len(o) : o[i][1] = k][2]

\* !o[k]: the key is absent or its value is the empty string
ObjFalsy(o, k) == ~ObjHas(o, k) \/ ObjGet(o, k) = <<>>

ObjSet(o, k, v) ==
    IF ObjHas(o, k)
    THEN [i \in 1..Len(o) |-> IF o[i][1] = k THEN <<k, v>> ELSE o[i]]
    ELSE Append(o, <<k, v>>)

ObjKeys(o) == {o[i][1] : i \in 1..Len(o)}

(***************************************************************************)
(* Configuration discovery.                                                *)
(***************************************************************************)
MICROMAMBA == <<"micromamba">>

\* what `echo $MAMBA_ROOT_PREFIX; echo $MAMBA_EXE` prints for two values
shellStdout(rootVar, exeVar) ==
    LET eol == IF isWin THEN <<"\r", "\n">> ELSE <<"\n">>
    IN  rootVar \o eol \o exeVar \o eol

\* the exec callback of fetchMambaVarsFromShell on success
shellVarsOf(lines) ==
    [rootPrefix |-> IF lines[1] # <<>> THEN trim(lines[1]) ELSE <<>>,
     exe |-> IF Len(lines) > 1 /\ lines[2] # <<>> THEN trim(lines[2]) ELSE <<>>]

fetchMambaVarsFromShell(stdout) == shellVarsOf(splitNewlines(trim(stdout)))

\* getMambaConfig after the shell call: cfg holds the locals read from the
\* settings; shell is None when the call was rejected (error or timeout)
exeOrDefault(exe) == IF exe = <<>> THEN MICROMAMBA ELSE exe

getMambaConfigMerge(cfg, shell) ==
    [rootPrefix |-> IF shell # None /\ cfg.rootPrefix = <<>>
                       /\ shell[1].rootPrefix # <<>>
                    THEN shell[1].rootPrefix ELSE cfg.rootPrefix,
     exe |-> exeOrDefault(IF shell # None /\ cfg.exe = <<>> /\ shell[1].exe # <<>>
                          THEN shell[1].exe ELSE cfg.exe)]

\* getMambaConfig on an empty cache, from the settings to the returned
\* configuration: the shell is asked only when a setting is missing, and
\* shellOk says whether that call resolved
getMambaConfig(cfg, shellOk, rootVar, exeVar) ==
    IF (cfg.rootPrefix = <<>> \/ cfg.exe = <<>>) /\ shellOk
    THEN getMambaConfigMerge(cfg,
             Some(fetchMambaVarsFromShell(shellStdout(rootVar, exeVar))))
    ELSE getMambaConfigMerge(cfg, None)

(***************************************************************************)
(* Catalog and classification (selectEnvironment).                         *)
(***************************************************************************)
NotBlank(line) == trim(line) # <<>>

NotEmpty(line) == line # <<>>

readEnvironmentsTxtUntrimmed(content) == SelectSeq(splitNewlines(content), NotEmpty)

readEnvironmentsTxt(content) == SelectSeq(splitNewlines(content), NotBlank)

\* the item built for one registry line
itemOf(normalizedPath, label, icon, isActive) ==
    [label |-> IF isActive THEN <<"$(check)", " ", icon, " ">> \o label
               ELSE <<icon, " ">> \o label,
     description |-> IF isActive THEN <<"(Active)", " ">> \o normalizedPath
                     ELSE normalizedPath,
     envPath |-> normalizedPath]

classifyPathRootFirst(normalizedPath, isWorkspaceEnv, currentActivePath, normalizedRootPrefix) ==
    [item |-> itemOf(normalizedPath, basename(normalizedPath),
                     IF isWorkspaceEnv THEN "$(project)" ELSE "$(globe)",
                     currentActivePath = normalizedPath),
     isActive |-> currentActivePath = normalizedPath,
     group |-> IF normalizedRootPrefix # <<>>
                  /\ startsWith(normalizedPath, normalizedRootPrefix)
               THEN "root"
               ELSE IF isWorkspaceEnv THEN "workspace" ELSE "none"]

\* one pass of the forEach body over a normalized line: the item, whether it
\* is the active one, and the list it is pushed to
classifyPath(normalizedPath, isWorkspaceEnv, currentActivePath, normalizedRootPrefix) ==
    [item |-> itemOf(normalizedPath, basename(normalizedPath),
                     IF isWorkspaceEnv THEN "$(project)" ELSE "$(globe)",
                     currentActivePath = normalizedPath),
     isActive |-> currentActivePath = normalizedPath,
     group |-> IF isWorkspaceEnv THEN "workspace"
               ELSE IF normalizedRootPrefix # <<>>
                       /\ startsWith(normalizedPath, normalizedRootPrefix)
                    THEN "root" ELSE "none"]

isWorkspaceEnvOf(normalizedPath, currentWorkspacePath) ==
    /\ currentWorkspacePath # None
    /\ currentWorkspacePath[1] # <<>>
    /\ startsWith(normalizedPath, currentWorkspacePath[1])

classifyNormalized(normalizedPath, currentWorkspacePath, currentActivePath, normalizedRootPrefix) ==
    classifyPath(normalizedPath,
                 isWorkspaceEnvOf(normalizedPath, currentWorkspacePath),
                 currentActivePath, normalizedRootPrefix)

classifyLine(envPath, currentWorkspacePath, currentActivePath, normalizedRootPrefix) ==
    classifyNormalized(normalize(envPath), currentWorkspacePath, currentActivePath,
                       normalizedRootPrefix)

pushItem(acc, c) ==
    [workspaceItems |-> IF c.group = "workspace"
                        THEN Append(acc.workspaceItems, c.item)
                        ELSE acc.workspaceItems,
     rootItems |-> IF c.group = "root" THEN Append(acc.rootItems, c.item)
                   ELSE acc.rootItems,
     activeItem |-> IF c.isActive THEN Some(c.item) ELSE acc.activeItem]

RECURSIVE classifyFrom(_, _, _, _, _, _)
classifyFrom(lines, i, acc, ws, active, prefix) ==
    IF i > Len(lines) THEN acc
    ELSE classifyFrom(lines, i + 1,
                      pushItem(acc, classifyLine(lines[i], ws, active, prefix)),
                      ws, active, prefix)

\* steps 3 and 4 of selectEnvironment: the two groups and the active item
classify(lines, folders, stored, rootPrefix) ==
    classifyFrom(lines, 1,
        [workspaceItems |-> <<>>, rootItems |-> <<>>, activeItem |-> None],
        IF folders # <<>> THEN Some(normalize(folders[1])) ELSE None,
        IF stored # <<>> THEN normalize(stored) ELSE <<>>,
        IF rootPrefix # <<>> THEN normalize(rootPrefix) ELSE <<>>)

(***************************************************************************)
(* Activation helpers (setEnvironment).                                    *)
(***************************************************************************)
CONDA_DEFAULT_ENV == <<"CONDA_DEFAULT_ENV">>

CONDA_PREFIX == <<"CONDA_PREFIX">>

lastIndexOf(s, c) ==
    IF includes(s, c) THEN CHOOSE i \in 1..Len(s) :
                               s[i] = c /\ \A j \in (i + 1)..Len(s) : s[j] # c
    ELSE 0

parseLineAtLast(envs, line, idx) ==
    IF line = <<>> \/ ~includes(line, "=") THEN envs
    ELSE ObjSet(envs, trim(SubSeq(line, 1, lastIndexOf(line, "=") - 1)),
                trim(SubSeq(line, lastIndexOf(line, "=") + 1, Len(line))))

\* the forEach body of parseEnvOutput for one line
parseLine(envs, line, idx) ==
    IF line = <<>> \/ ~includes(line, "=") THEN envs
    ELSE ObjSet(envs, trim(SubSeq(line, 1, idx - 1)),
                trim(SubSeq(line, idx + 1, Len(line))))

RECURSIVE parseLinesFrom(_, _, _)
parseLinesFrom(lines, i, envs) ==
    IF i > Len(lines) THEN envs
    ELSE parseLinesFrom(lines, i + 1,
                        parseLine(envs, lines[i], indexOf(lines[i], "=")))

parseEnvOutput(output) == parseLinesFrom(splitNewlines(output), 1, <<>>)

fixDefaultEnvSkipped(envVars, envNameDisplay) == envVars

\* "Fix missing variables for Terminal prompt"
fixDefaultEnv(envVars, envNameDisplay) ==
    IF ObjFalsy(envVars, CONDA_DEFAULT_ENV)
    THEN ObjSet(envVars, CONDA_DEFAULT_ENV, envNameDisplay) ELSE envVars

fixPrefix(envVars, envPath) ==
    IF ObjFalsy(envVars, CONDA_PREFIX) THEN ObjSet(envVars, CONDA_PREFIX, envPath)
    ELSE envVars

fixMissingVars(envVars, envPath) ==
    fixPrefix(fixDefaultEnv(envVars, basename(envPath)), envPath)

\* envCollection.clear(), then envCollection.replace(key, value) for each entry:
\* the collection is a map from name to value
collectionReplaceAll(collection, envVars) ==
    [k \in (DOMAIN collection) \cup ObjKeys(envVars) |->
        IF ObjHas(envVars, k) THEN ObjGet(envVars, k) ELSE collection[k]]

injectTerminalMerging(collection, envVars) == collectionReplaceAll(collection, envVars)

injectTerminal(collection, envVars) == collectionReplaceAll(<<>>, envVars)

RECURSIVE envFileContent(_)
envFileContent(envs) ==
    IF envs = <<>> THEN <<>>
    ELSE envs[1][1] \o <<"=", "\"">> \o escapeQuotes(envs[1][2]) \o <<"\"", "\n">>
         \o envFileContent(Tail(envs))

\* path.relative(from, to) for two absolute paths; win32 compares the two
\* lower-cased
RECURSIVE CommonLen(_, _)
CommonLen(a, b) ==
    IF a # <<>> /\ b # <<>> /\ foldCase(Head(a)) = foldCase(Head(b))
    THEN 1 + CommonLen(Tail(a), Tail(b)) ELSE 0

relativeSegs(f, t, n) ==
    JoinSegs([i \in 1..(Len(f) - n) |-> DotDot] \o SubSeq(t, n + 1, Len(t)))

relativeOf(f, t) == relativeSegs(f, t, CommonLen(f, t))

pathRelative(from, to) ==
    relativeOf(normalizeString(Segments(from), <<>>, FALSE),
               normalizeString(Segments(to), <<>>, FALSE))

\* relPath.split(path.sep).join('/')
forwardSlashes(s) == [i \in 1..Len(s) |-> IF s[i] = sep THEN "/" ELSE s[i]]

pythonPathOf(prefix) ==
    IF isWin THEN pathJoin(<<prefix, <<"python.exe">> >>)
    ELSE pathJoin(<<prefix, <<"bin">>, <<"python">> >>)

\* the value written to python.defaultInterpreterPath
finalPathOf(pythonPath, rootPath) ==
    IF startsWith(normalize(pythonPath), normalize(rootPath))
    THEN <<"${workspaceFolder}", "/">>
         \o forwardSlashes(pathRelative(rootPath, pythonPath))
    ELSE pythonPath

\* status bar texts
StatusIdle == <<"$(circle-slash)", " ", "Micromamba">>

StatusLoading(name) == <<"$(sync~spin)", " ", "Micromamba:", " ">> \o name \o <<"...">>

StatusError == <<"$(error)", " ", "Micromamba:", " ", "Error">>

StatusActive(name) == <<"$(check)", " ">> \o name

(***************************************************************************)
(* Bounds and the inputs the environment can supply.                       *)
(***************************************************************************)
MaxCalls == 4       \* selectEnvironment and setEnvironment calls in one session

WsRoot == <<"/", "w">>

EnvA == <<"/", "r", "/", "a">>

EnvB == <<"/", "w", "/", "b">>

\* the extension's settings: nothing set, or root prefix and binary set
SettingsPool ==
    {[rootPrefix |-> <<>>, exe |-> <<>>],
     [rootPrefix |-> <<"/", "r">>, exe |-> <<"/opt/micromamba">>]}

ShellRoots == {<<>>, <<"/", "r">>}

ShellExes == {<<>>, <<"/home/u/micromamba">>}

\* the variables of the environment at envPath as the subprocess sees them:
\* all of them (the name is the path for an environment addressed by path,
\* the prefix is the resolved directory), or none of the two set to a value
printedVars(envPath) ==
    IF envDump = "full"
    THEN << <<CONDA_DEFAULT_ENV, envPath>>,
            <<CONDA_PREFIX, <<"/", "mnt">> \o envPath>>,
            <<(<<"HOME_">> \o basename(envPath)), <<"1">> >> >>
    ELSE << <<CONDA_PREFIX, <<>> >>,
            <<(<<"ONLY_">> \o basename(envPath)), <<"/", "bin">> >> >>

\* `env` prints one NAME=value line per variable
RECURSIVE printEnv(_)
printEnv(pairs) ==
    IF pairs = <<>> THEN <<>>
    ELSE pairs[1][1] \o <<"=">> \o pairs[1][2] \o <<"\n">> \o printEnv(Tail(pairs))

\* what `<binary> run -p <envPath> env` prints
runEnvStdout(envPath) == printEnv(printedVars(envPath))

RegistryMissing == [exists |-> FALSE, content |-> <<>>]

RegistryBoth == [exists |-> TRUE, content |-> EnvB \o <<"\n">> \o EnvA \o <<"\r", "\n">>]

RegistryTwice ==
    [exists |-> TRUE, content |-> EnvA \o <<"\n", "/", "r", "/", "/", "a", "\n">>]

\* the machines the session can run on
HostPool ==
    {[isWin |-> FALSE, folders |-> <<WsRoot>>, registry |-> RegistryBoth,
      envDump |-> "full", hasPython |-> TRUE, envWritable |-> TRUE,
      storedPath |-> <<>>],
     [isWin |-> FALSE, folders |-> <<WsRoot>>, registry |-> RegistryBoth,
      envDump |-> "partial", hasPython |-> TRUE, envWritable |-> TRUE,
      storedPath |-> EnvA],
     [isWin |-> FALSE, folders |-> <<WsRoot>>, registry |-> RegistryTwice,
      envDump |-> "full", hasPython |-> FALSE, envWritable |-> FALSE,
      storedPath |-> <<>>],
     [isWin |-> TRUE, folders |-> <<>>, registry |-> RegistryTwice,
      envDump |-> "full", hasPython |-> FALSE, envWritable |-> TRUE,
      storedPath |-> EnvA],
     [isWin |-> FALSE, folders |-> <<>>, registry |-> RegistryMissing,
      envDump |-> "full", hasPython |-> FALSE, envWritable |-> TRUE,
      storedPath |-> EnvB]}

(***************************************************************************)
(* State machine.                                                          *)
(***************************************************************************)
\* a finished call keeps no locals
SelectDone(outcome) ==
    [pc |-> outcome, rootPrefix |-> <<>>, exe |-> <<>>, items |-> <<>>,
     activeItems |-> <<>>]

ActDone(outcome) ==
    [pc |-> outcome, envPath |-> <<>>, binary |-> <<>>, finalPath |-> <<>>]

SeparatorWorkspace == [label |-> <<"Workspace Environments">>, kind |-> "Separator"]

SeparatorRoot == [label |-> <<"Root / Global Environments">>, kind |-> "Separator"]

pickerItemsOf(c) ==
    (IF Len(c.workspaceItems) > 0 THEN <<SeparatorWorkspace>> \o c.workspaceItems
     ELSE <<>>)
    \o (IF Len(c.rootItems) > 0 THEN <<SeparatorRoot>> \o c.rootItems ELSE <<>>)

\* step 5 of selectEnvironment: nothing to show, or the quick pick
showQuickPick(pickerItems, activeItem, exe) ==
    IF Len(pickerItems) = 0 THEN SelectDone("done")
    ELSE [pc |-> "picker", rootPrefix |-> <<>>, exe |-> exe,
          items |-> pickerItems, activeItems |-> activeItem]

showClassified(c, exe) == showQuickPick(pickerItemsOf(c), c.activeItem, exe)

\* selectEnvironment from the point where getMambaConfig has returned `config`
selectAfterConfig(config) ==
    IF ~registry.exists THEN SelectDone("done")
    ELSE showClassified(
             classify(readEnvironmentsTxt(registry.content), workspaceFolders,
                      storedPath, config.rootPrefix),
             config.exe)

\* the editor shows one quick pick at a time: showing one hides the others
hideOthers(sels, shown) ==
    IF shown.pc = "picker"
    THEN [i \in 1..Len(sels) |->
             IF sels[i].pc = "picker" THEN SelectDone("done") ELSE sels[i]]
    ELSE sels

\* setEnvironment up to cp.exec: the binary it runs and the new call record
setEnvironmentBinary(manualExe) ==
    IF manualExe # None /\ manualExe[1] # <<>> THEN manualExe[1]
    ELSE IF cachedMambaConfig # None THEN cachedMambaConfig[1].exe
         ELSE IF settings.exe # <<>> THEN settings.exe ELSE MICROMAMBA

setEnvironmentCall(envPath, manualExe) ==
    [pc |-> "exec", envPath |-> envPath, binary |-> setEnvironmentBinary(manualExe),
     finalPath |-> <<>>]

NoFn == <<fnIn, fnOut>>

\* what no handler of the extension writes: the machine, and the workspace
\* setting python.terminal.activateEnvironment
Host ==
    <<isWin, workspaceFolders, registry, shellEnv, envDump, hasPython, envWritable,
      activateEnvironment>>

Sinks == <<envCollection, envFile, interpreterPath, storedPath>>

Init ==
    /\ \E h \in HostPool :
          /\ isWin = h.isWin
          /\ workspaceFolders = h.folders
          /\ registry = h.registry
          /\ envDump = h.envDump
          /\ hasPython = h.hasPython
          /\ envWritable = h.envWritable
          /\ storedPath = h.storedPath
    /\ settings \in SettingsPool
    /\ shellEnv \in [rootVar : ShellRoots, exeVar : ShellExes]
    /\ cachedMambaConfig = None
    /\ shellCalls = 0
    /\ selects = <<>>
    /\ acts = <<>>
    /\ envCollection = <<>>
    /\ envFile = [exists |-> FALSE, content |-> <<>>]
    /\ interpreterPath = <<>>
    /\ activateEnvironment = None
    /\ statusText = <<>>
    /\ booted = FALSE
    /\ fnIn = <<>>
    /\ fnOut = <<>>

\* activate(): restore the last environment or show the idle status
Activate ==
    /\ ~booted
    /\ booted' = TRUE
    /\ IF storedPath # <<>>
       THEN /\ acts' = Append(acts, setEnvironmentCall(storedPath, None))
            /\ statusText' = StatusLoading(basename(storedPath))
       ELSE /\ acts' = acts
            /\ statusText' = StatusIdle
    /\ UNCHANGED <<settings, cachedMambaConfig, shellCalls, selects, Sinks, Host, NoFn>>

\* the user edits the extension's settings
ChangeSettings ==
    /\ booted
    /\ \E s \in SettingsPool :
          /\ s # settings
          /\ settings' = s
    /\ UNCHANGED <<cachedMambaConfig, shellCalls, selects, acts, statusText, booted,
                   Sinks, Host, NoFn>>

\* a new call that ran up to `sel` without suspending
showSelect(sel) == Append(hideOthers(selects, sel), sel)

\* call i resumed and ran up to `sel`
resumeSelect(i, sel) == [hideOthers(selects, sel) EXCEPT ![i] = sel]

\* the command micromamba-envs.select, up to the first suspension
SelectEnvironment ==
    /\ booted
    /\ Len(selects) + Len(acts) < MaxCalls
    /\ IF cachedMambaConfig # None
       THEN /\ selects' = showSelect(selectAfterConfig(cachedMambaConfig[1]))
            /\ UNCHANGED <<cachedMambaConfig, shellCalls>>
       ELSE IF settings.rootPrefix = <<>> \/ settings.exe = <<>>
            THEN /\ selects' = Append(selects,
                        [pc |-> "shell", rootPrefix |-> settings.rootPrefix,
                         exe |-> settings.exe, items |-> <<>>,
                         activeItems |-> <<>>])
                 /\ shellCalls' = shellCalls + 1
                 /\ UNCHANGED cachedMambaConfig
            ELSE /\ cachedMambaConfig' = Some(getMambaConfigMerge(settings, None))
                 /\ selects' = showSelect(
                        selectAfterConfig(getMambaConfigMerge(settings, None)))
                 /\ UNCHANGED shellCalls
    /\ UNCHANGED <<settings, acts, statusText, booted, Sinks, Host, NoFn>>

\* the shell call of select i completes: getMambaConfig caches and returns, and
\* selectEnvironment runs on to the picker
ShellDone(i, shell) ==
    /\ selects[i].pc = "shell"
    /\ cachedMambaConfig' = Some(getMambaConfigMerge(selects[i], shell))
    /\ selects' = resumeSelect(i,
                      selectAfterConfig(getMambaConfigMerge(selects[i], shell)))
    /\ UNCHANGED <<settings, shellCalls, acts, statusText, booted, Sinks, Host, NoFn>>

ShellResolved ==
    \E i \in 1..Len(selects) :
        ShellDone(i, Some(fetchMambaVarsFromShell(
                              shellStdout(shellEnv.rootVar, shellEnv.exeVar))))

ShellRejected == \E i \in 1..Len(selects) : ShellDone(i, None)

\* onDidAccept with item k of picker i selected
Accept ==
    \E i \in 1..Len(selects) :
        /\ selects[i].pc = "picker"
        /\ Len(selects) + Len(acts) < MaxCalls
        /\ \E k \in 1..Len(selects[i].items) :
              LET selected == selects[i].items[k]
              IN  /\ "envPath" \in DOMAIN selected
                  /\ acts' = Append(acts,
                        setEnvironmentCall(selected.envPath, Some(selects[i].exe)))
                  /\ statusText' = StatusLoading(basename(selected.envPath))
        /\ selects' = [selects EXCEPT ![i] = SelectDone("done")]
        /\ UNCHANGED <<settings, cachedMambaConfig, shellCalls, booted, Sinks, Host,
                       NoFn>>

\* the user dismisses picker i
Dismiss ==
    \E i \in 1..Len(selects) :
        /\ selects[i].pc = "picker"
        /\ selects' = [selects EXCEPT ![i] = SelectDone("done")]
        /\ UNCHANGED <<settings, cachedMambaConfig, shellCalls, acts, statusText,
                       booted, Sinks, Host, NoFn>>

ExecFailedClearing(a) ==
    /\ acts[a].pc = "exec"
    /\ acts' = [acts EXCEPT ![a] = ActDone("failed")]
    /\ statusText' = StatusError
    /\ envCollection' = <<>>
    /\ UNCHANGED <<settings, cachedMambaConfig, shellCalls, selects, booted, envFile,
                   interpreterPath, storedPath, Host, NoFn>>

\* the exec callback of call a with err set
ExecFailed(a) ==
    /\ acts[a].pc = "exec"
    /\ acts' = [acts EXCEPT ![a] = ActDone("failed")]
    /\ statusText' = StatusError
    /\ UNCHANGED <<settings, cachedMambaConfig, shellCalls, selects, booted, Sinks,
                   Host, NoFn>>

ExecFail == \E a \in 1..Len(acts) : ExecFailed(a)

\* step 3 of the callback: persist the path and show it
finishActivation(a) ==
    /\ storedPath' = acts[a].envPath
    /\ statusText' = StatusActive(basename(acts[a].envPath))

\* envVars['CONDA_PREFIX'] || envPath
prefixOf(envVars, envPath) ==
    IF ObjFalsy(envVars, CONDA_PREFIX) THEN envPath ELSE ObjGet(envVars, CONDA_PREFIX)

\* the variable mapping of call a: stdout parsed, the two names fixed
envVarsOf(stdout, envPath) == fixMissingVars(parseEnvOutput(stdout), envPath)

\* the exec callback of call a from the parsed and fixed mapping on, up to its
\* first await (or to its end)
execCallback(a, envVars) ==
    /\ envCollection' = injectTerminal(envCollection, envVars)
    /\ IF workspaceFolders # <<>>
       THEN /\ envFile' = IF envWritable
                          THEN [exists |-> TRUE, content |-> envFileContent(envVars)]
                          ELSE envFile
            /\ IF hasPython
               THEN /\ acts' = [acts EXCEPT ![a].pc = "update",
                           ![a].binary = <<>>,
                           ![a].finalPath =
                               finalPathOf(
                                   pythonPathOf(prefixOf(envVars, acts[a].envPath)),
                                   workspaceFolders[1])]
                    /\ UNCHANGED <<storedPath, statusText>>
               ELSE /\ acts' = [acts EXCEPT ![a] = ActDone("done")]
                    /\ finishActivation(a)
       ELSE /\ acts' = [acts EXCEPT ![a] = ActDone("done")]
            /\ finishActivation(a)
            /\ UNCHANGED envFile

\* the exec callback of call a without err
ExecSucceeded(a) ==
    /\ acts[a].pc = "exec"
    /\ execCallback(a, envVarsOf(runEnvStdout(acts[a].envPath), acts[a].envPath))
    /\ UNCHANGED <<settings, cachedMambaConfig, shellCalls, selects, booted,
                   interpreterPath, Host, NoFn>>

ExecSuccess == \E a \in 1..Len(acts) : ExecSucceeded(a)

\* `await pythonConfig.update(...)` settles: the setting is written, or the
\* rejection leaves the async callback
UpdateSettled(a, ok) ==
    /\ acts[a].pc = "update"
    /\ IF ok
       THEN /\ interpreterPath' = acts[a].finalPath
            /\ acts' = [acts EXCEPT ![a].pc = "clear", ![a].finalPath = <<>>]
       ELSE /\ interpreterPath' = interpreterPath
            /\ acts' = [acts EXCEPT ![a] = ActDone("rejected")]
    /\ UNCHANGED <<settings, cachedMambaConfig, shellCalls, selects, statusText,
                   booted, envCollection, envFile, storedPath, Host, NoFn>>

UpdateDone == \E a \in 1..Len(acts) : UpdateSettled(a, TRUE)

UpdateRejected == \E a \in 1..Len(acts) : UpdateSettled(a, FALSE)

\* `await executeCommand("python.clearWorkspaceInterpreter")` settles either
\* way (try/catch), then step 3 runs
ClearSettled(a) ==
    /\ acts[a].pc = "clear"
    /\ acts' = [acts EXCEPT ![a] = ActDone("done")]
    /\ finishActivation(a)
    /\ UNCHANGED <<settings, cachedMambaConfig, shellCalls, selects, booted,
                   envCollection, envFile, interpreterPath, Host, NoFn>>

ClearDone == \E a \in 1..Len(acts) : ClearSettled(a)

Next ==
    \/ Activate
    \/ ChangeSettings
    \/ SelectEnvironment
    \/ ShellResolved
    \/ ShellRejected
    \/ Accept
    \/ Dismiss
    \/ ExecFail
    \/ ExecSuccess
    \/ UpdateDone
    \/ UpdateRejected
    \/ ClearDone

Spec == Init /\ [][Next]_vars

(***************************************************************************)
(* Properties of the session (Spec).                                       *)
(***************************************************************************)
\* call a took the error branch of its exec callback in this step
FailsNow(a) == acts[a].pc = "exec" /\ acts'[a].pc = "failed"

\* call a took the success branch of its exec callback in this step
SucceedsNow(a) == acts[a].pc = "exec" /\ acts'[a].pc \in {"update", "done"}

\* C1: an activation whose subprocess fails changes none of the terminal
\* collection, the .env file, the interpreter-path setting and the persisted
\* path: neither the step that starts a call nor the step in which a call takes
\* the error branch (its last step) changes any of them.
C1_FailedActivationChangesNoSink ==
    [][((Len(acts') > Len(acts)) \/ (\E a \in 1..Len(acts) : FailsNow(a)))
       => UNCHANGED Sinks]_vars

\* a call has failed after an earlier one had filled the sinks
C1_Witness ==
    /\ \E a \in 1..Len(acts) : acts[a].pc = "failed"
    /\ DOMAIN envCollection # {}
    /\ envFile.exists
    /\ interpreterPath # <<>>
    /\ storedPath # <<>>

\* the mapping call a obtains for its path
MappingOf(a) == envVarsOf(runEnvStdout(acts[a].envPath), acts[a].envPath)

HoldsExactly(collection, m) ==
    /\ DOMAIN collection = ObjKeys(m)
    /\ \A k \in ObjKeys(m) : collection[k] = ObjGet(m, k)

\* C2: in the step in which an activation succeeds the terminal collection
\* becomes exactly the mapping of that activation: every name of the mapping
\* with its value and no other name, whatever the collection held before.
C2_CollectionIsReplaced ==
    [][\A a \in 1..Len(acts) :
          SucceedsNow(a) => HoldsExactly(envCollection', MappingOf(a))]_vars

\* environment a was activated to its end, b succeeded after it, and the
\* variable only a has is gone from the collection
C2_Witness ==
    /\ registry = RegistryBoth
    /\ envDump = "full"
    /\ storedPath = EnvA
    /\ <<"HOME_", "b">> \in DOMAIN envCollection
    /\ <<"HOME_", "a">> \notin DOMAIN envCollection
    /\ \E a \in 1..Len(acts) : acts[a].pc = "done"

\* C3: the configuration-discovery shell is started at most once in a session.
C3_ShellQueriedAtMostOnce == shellCalls <= 1

PrintedNonEmpty(envPath, name) ==
    ObjHas(printedVars(envPath), name) /\ ObjGet(printedVars(envPath), name) # <<>>

\* the value the mapping of an activation of envPath must give to name
\* when `fallback` stands in for a value that was not printed
ExpectedValue(envPath, name, fallback) ==
    IF PrintedNonEmpty(envPath, name) THEN ObjGet(printedVars(envPath), name)
    ELSE fallback

\* t occurs in s as a run of consecutive elements
Occurs(t, s) == \E i \in 0..(Len(s) - Len(t)) : SubSeq(s, i + 1, i + Len(t)) = t

EnvLine(name, value) == name \o <<"=", "\"">> \o value \o <<"\"", "\n">>

HandedOver(name, value) ==
    /\ name \in DOMAIN envCollection'
    /\ envCollection'[name] = value
    /\ (workspaceFolders # <<>> /\ envWritable)
          => /\ envFile'.exists
             /\ Occurs(EnvLine(name, value), envFile'.content)

\* C9 (amended): after every successful activation the mapping handed to the
\* terminal collection and to the .env file has both CONDA_DEFAULT_ENV and
\* CONDA_PREFIX: a printed non-empty value is kept, and a name that was not
\* printed or was printed with an empty value gets the basename of the
\* selected path (CONDA_DEFAULT_ENV) or the selected path (CONDA_PREFIX).
C9_BothNamesAlwaysSet ==
    [][\A a \in 1..Len(acts) :
          SucceedsNow(a) =>
            /\ HandedOver(CONDA_DEFAULT_ENV,
                          ExpectedValue(acts[a].envPath, CONDA_DEFAULT_ENV,
                                        basename(acts[a].envPath)))
            /\ HandedOver(CONDA_PREFIX,
                          ExpectedValue(acts[a].envPath, CONDA_PREFIX,
                                        acts[a].envPath))]_vars

\* an activation of a dump without the name has filled collection and file
C9_Witness ==
    /\ envDump = "partial"
    /\ CONDA_DEFAULT_ENV \in DOMAIN envCollection
    /\ envCollection[CONDA_PREFIX] = EnvB
    /\ envFile.exists
    /\ \E a \in 1..Len(acts) : acts[a].pc = "done"

\* C9 as stated: both names are in the mapping, every printed value is kept
\* (an empty one too), and only a name that was not printed is synthesized.
C9_PrintedValueIsKept ==
    [][\A a \in 1..Len(acts) :
          SucceedsNow(a) =>
            /\ HandedOver(CONDA_DEFAULT_ENV,
                          IF ObjHas(printedVars(acts[a].envPath), CONDA_DEFAULT_ENV)
                          THEN ObjGet(printedVars(acts[a].envPath), CONDA_DEFAULT_ENV)
                          ELSE basename(acts[a].envPath))
            /\ HandedOver(CONDA_PREFIX,
                          IF ObjHas(printedVars(acts[a].envPath), CONDA_PREFIX)
                          THEN ObjGet(printedVars(acts[a].envPath), CONDA_PREFIX)
                          ELSE acts[a].envPath)]_vars

\* C11: once an activation has written python.defaultInterpreterPath, the
\* workspace setting python.terminal.activateEnvironment is false.
C11_TerminalActivationDisabled ==
    interpreterPath # <<>> => activateEnvironment = Some(FALSE)

\* call a, whose subprocess succeeded, runs its last step
EndsAfterSuccess(a) ==
    /\ acts[a].pc \in {"exec", "update", "clear"}
    /\ acts'[a].pc \in {"done", "rejected"}

\* C13: every activation whose subprocess succeeded writes its selected path
\* to the persisted last-active path (in its last step), and nothing else
\* changes the persisted path.
C13_StoredPathWrittenPerSuccess ==
    [][/\ \A a \in 1..Len(acts) :
             EndsAfterSuccess(a) => storedPath' = acts[a].envPath
       /\ storedPath' # storedPath
             => \E a \in 1..Len(acts) : EndsAfterSuccess(a)]_vars

\* C14: at most one environment-manager subprocess is outstanding at a time.
C14_OneSubprocessInFlight ==
    Cardinality({a \in 1..Len(acts) : acts[a].pc = "exec"}) <= 1

\* no activation is in progress
Quiescent == \A a \in 1..Len(acts) : acts[a].pc \in {"done", "failed", "rejected"}

\* the subprocess of some activation has succeeded
SomeSucceeded == \E a \in 1..Len(acts) : acts[a].pc \in {"done", "rejected"}

\* C16: when no activation is in progress and one has succeeded, the terminal
\* collection holds the variables obtained for the persisted path.
C16_CollectionMatchesStoredPath ==
    (Quiescent /\ SomeSucceeded) =>
        /\ storedPath # <<>>
        /\ HoldsExactly(envCollection,
                        envVarsOf(runEnvStdout(storedPath), storedPath))

\* the executable of the resolved configuration: the cached one, or before
\* any resolution the one getMambaConfig gives with the shell answering
ResolvedExe ==
    IF cachedMambaConfig # None THEN cachedMambaConfig[1].exe
    ELSE getMambaConfig(settings, TRUE, shellEnv.rootVar, shellEnv.exeVar).exe

\* C17: every environment-manager subprocess, started from the picker or by
\* the startup re-activation, runs the executable of the resolved
\* configuration (setting, else shell-discovered value, else "micromamba").
C17_SubprocessRunsResolvedExe ==
    [][Len(acts') > Len(acts) => acts'[Len(acts')].binary = ResolvedExe]_vars

\* C18: the item a shown picker highlights is one of the items of its list.
C18_HighlightedItemIsListed ==
    \A i \in 1..Len(selects) :
        (selects[i].pc = "picker" /\ selects[i].activeItems # None)
           => \E k \in 1..Len(selects[i].items) :
                 selects[i].items[k] = selects[i].activeItems[1]

\* call a runs its last step: no subprocess or editor call of it is pending
\* afterwards
EndsNow(a) ==
    /\ acts[a].pc \in {"exec", "update", "clear"}
    /\ acts'[a].pc \in {"done", "failed", "rejected"}

InProgress(text) == text # <<>> /\ text[1] = "$(sync~spin)"

\* C19: every started activation sets the status indicator to success or to
\* error.  Each pending subprocess and editor call completing, an activation
\* reaches its last step, so this says that the last step of an activation
\* leaves the indicator at success or error, never in progress.
C19_ActivationEndsWithStatus ==
    [][\A a \in 1..Len(acts) :
          EndsNow(a) => (~InProgress(statusText')
                         /\ (statusText' = StatusError \/ statusText'[1] = "$(check)"))]_vars

(***************************************************************************)
(* The functions on their own: Init draws an input, one action applies the *)
(* function to it.  The session's state is at rest meanwhile.              *)
(***************************************************************************)
MaxContentLen == 5  \* symbols in a registry file
MaxLines == 2       \* lines of a registry handed to the classification
MaxOutputLen == 7   \* symbols in the output of the `env` subprocess
MaxValueLen == 2    \* symbols in the value of a variable written to .env

RECURSIVE SeqsUpTo(_, _)
SeqsUpTo(S, n) ==
    IF n = 0 THEN {<<>>}
    ELSE SeqsUpTo(S, n - 1) \cup {Append(q, x) : q \in {r \in SeqsUpTo(S, n - 1) : Len(r) = n - 1}, x \in S}

AtRest(win) ==
    /\ isWin = win
    /\ settings = [rootPrefix |-> <<>>, exe |-> <<>>]
    /\ workspaceFolders = <<>>
    /\ registry = RegistryMissing
    /\ shellEnv = [rootVar |-> <<>>, exeVar |-> <<>>]
    /\ envDump = "full"
    /\ hasPython = FALSE
    /\ envWritable = TRUE
    /\ cachedMambaConfig = None
    /\ shellCalls = 0
    /\ selects = <<>>
    /\ acts = <<>>
    /\ envCollection = <<>>
    /\ envFile = [exists |-> FALSE, content |-> <<>>]
    /\ interpreterPath = <<>>
    /\ activateEnvironment = None
    /\ storedPath = <<>>
    /\ statusText = <<>>
    /\ booted = FALSE
    /\ fnOut = None

Session ==
    <<isWin, settings, workspaceFolders, registry, shellEnv, envDump, hasPython,
      envWritable, cachedMambaConfig, shellCalls, selects, acts, envCollection, envFile,
      interpreterPath, activateEnvironment, storedPath, statusText, booted>>

Returns(value) ==
    /\ fnOut = None
    /\ fnOut' = Some(value)
    /\ UNCHANGED <<fnIn, Session>>

(***************************************************************************)
(* SpecConfig: getMambaConfig over settings and shell variables.           *)
(***************************************************************************)
ConfigSettings ==
    {[rootPrefix |-> r, exe |-> e] :
        r \in {<<>>, <<"/", "s">>}, e \in {<<>>, <<"/opt/micromamba">>}}

ShellVarRoots == {<<>>, <<"/", "r">>, <<"/", "m", " ", "r">>}

ShellVarExes == {<<>>, <<"/home/u/micromamba">>, <<"/", "x", "/", "mm">>}

InitConfig ==
    /\ \E win \in BOOLEAN : AtRest(win)
    /\ fnIn \in [cfg : ConfigSettings, shellOk : BOOLEAN, rootVar : ShellVarRoots,
                  exeVar : ShellVarExes]

ResolveConfig ==
    Returns(getMambaConfig(fnIn.cfg, fnIn.shellOk, fnIn.rootVar, fnIn.exeVar))

SpecConfig == InitConfig /\ [][ResolveConfig]_vars

\* explicit setting, else the shell's value when the call succeeded and the
\* value is not empty, else the default
Resolved(setting, shellOk, shellValue, default) ==
    IF setting # <<>> THEN setting
    ELSE IF shellOk /\ shellValue # <<>> THEN shellValue ELSE default

\* C4: getMambaConfig resolves each field as setting, else shell-discovered
\* value, else default (empty root prefix, executable "micromamba"); it returns
\* a configuration also when the shell call failed, and the executable is
\* never empty.
C4_FieldByFieldResolution ==
    fnOut # None =>
        /\ fnOut[1].rootPrefix
              = Resolved(fnIn.cfg.rootPrefix, fnIn.shellOk, fnIn.rootVar, <<>>)
        /\ fnOut[1].exe
              = Resolved(fnIn.cfg.exe, fnIn.shellOk, fnIn.exeVar, MICROMAMBA)
        /\ fnOut[1].exe # <<>>

(***************************************************************************)
(* SpecCatalog: the registry file as read by selectEnvironment.            *)
(***************************************************************************)
ContentAlphabet == {"a", "b", " ", "\r", "\n"}

InitCatalog ==
    /\ AtRest(FALSE)
    /\ fnIn \in SeqsUpTo(ContentAlphabet, MaxContentLen)

ReadRegistry == Returns(readEnvironmentsTxt(fnIn))

SpecCatalog == InitCatalog /\ [][ReadRegistry]_vars

\* the positions at which a line of s ends: each CR, each LF, and the end
LineEnds(s) == {i \in 1..Len(s) : IsNL(s[i])} \cup {Len(s) + 1}

\* the lines of s, a CR or LF ending a line wherever it stands, as the set of
\* <<first, end>> position pairs of the lines that hold some symbol other
\* than white space
NonBlankSpans(s) ==
    {sp \in (1..(Len(s) + 1)) \X LineEnds(s) :
        /\ sp[1] <= sp[2]
        /\ sp[1] = 1 \/ IsNL(s[sp[1] - 1])
        /\ \A i \in sp[1]..(sp[2] - 1) : ~IsNL(s[i])
        /\ \E i \in sp[1]..(sp[2] - 1) : ~IsSpace(s[i])}

\* the spans in file order
RECURSIVE InOrder(_)
InOrder(spans) ==
    IF spans = {} THEN <<>>
    ELSE LET first == CHOOSE sp \in spans : \A o \in spans : sp[1] <= o[1]
         IN  <<first>> \o InOrder(spans \ {first})

NonBlankLines(s) ==
    [i \in 1..Cardinality(NonBlankSpans(s)) |->
        SubSeq(s, InOrder(NonBlankSpans(s))[i][1], InOrder(NonBlankSpans(s))[i][2] - 1)]

\* C5: the entries read from a registry file are its non-blank lines in file
\* order, for every mix of CR, LF and CRLF; nothing is deduplicated, reordered
\* or dropped.
C5_EntriesAreTheNonBlankLines == fnOut # None => fnOut[1] = NonBlankLines(fnIn)

\* CR and LF mixed, a line of white space, and the same entry twice
C5_Witness ==
    /\ fnIn = <<"a", "\r", " ", "\n", "a">>
    /\ fnOut = Some(<< <<"a">>, <<"a">> >>)

(***************************************************************************)
(* SpecClassify: steps 2 to 4 of selectEnvironment over a registry.        *)
(***************************************************************************)
PathPool ==
    {<<"/", "r", "/", "a">>, <<"/", "r", "/", "/", "a">>, <<"/", "w", "/", "e">>,
     <<"/", "W", "/", "e">>, <<"/", "o">>}

FolderPool == {<<>>, << <<"/", "w">> >>, << <<"/", "r">> >>}

RootPrefixPool == {<<>>, <<"/", "r">>, <<"/", "w">>, <<"/">>}

StoredPool == {<<>>, <<"/", "r", "/", "a">>, <<"/", "w", "/", "e">>}

RECURSIVE JoinLines(_)
JoinLines(lines) ==
    IF lines = <<>> THEN <<>> ELSE lines[1] \o <<"\n">> \o JoinLines(Tail(lines))

InitClassify ==
    /\ \E win \in BOOLEAN : AtRest(win)
    /\ fnIn \in [lines : SeqsUpTo(PathPool, MaxLines), folders : FolderPool,
                  rootPrefix : RootPrefixPool, stored : StoredPool]

Classify ==
    Returns(classify(readEnvironmentsTxt(JoinLines(fnIn.lines)), fnIn.folders,
                     fnIn.stored, fnIn.rootPrefix))

SpecClassify == InitClassify /\ [][Classify]_vars

PathsOf(items) == {items[i].envPath : i \in 1..Len(items)}

UnderWorkspace(line) ==
    fnIn.folders # <<>> /\ startsWith(normalize(line), normalize(fnIn.folders[1]))

UnderRootPrefix(line) ==
    fnIn.rootPrefix # <<>> /\ startsWith(normalize(line), normalize(fnIn.rootPrefix))

\* C6: the workspace group and the global group are disjoint; an entry under
\* both the workspace root and the root prefix is only in the workspace group;
\* without a workspace root the workspace group is empty, without a root prefix
\* the global group is empty.
C6_GroupsAreDisjoint ==
    fnOut # None =>
        /\ PathsOf(fnOut[1].workspaceItems) \cap PathsOf(fnOut[1].rootItems) = {}
        /\ \A i \in 1..Len(fnIn.lines) :
              (UnderWorkspace(fnIn.lines[i]) /\ UnderRootPrefix(fnIn.lines[i]))
                 => /\ normalize(fnIn.lines[i]) \in PathsOf(fnOut[1].workspaceItems)
                    /\ normalize(fnIn.lines[i]) \notin PathsOf(fnOut[1].rootItems)
        /\ fnIn.folders = <<>> => fnOut[1].workspaceItems = <<>>
        /\ fnIn.rootPrefix = <<>> => fnOut[1].rootItems = <<>>

\* both groups are filled and the workspace entry is under the root prefix too
C6_Witness ==
    /\ fnOut # None
    /\ fnIn.rootPrefix = <<"/">>
    /\ fnIn.folders = << <<"/", "w">> >>
    /\ Len(fnOut[1].workspaceItems) = 1
    /\ Len(fnOut[1].rootItems) = 1

Listed == fnOut[1].workspaceItems \o fnOut[1].rootItems

MarkedActive(item) == item.label[1] = "$(check)"

\* C7: in every listing at most one entry is marked active, and an entry is
\* marked active iff its normalized path is the normalized stored path.
C7_AtMostOneActive ==
    fnOut # None =>
        /\ Cardinality({i \in 1..Len(Listed) : MarkedActive(Listed[i])}) <= 1
        /\ \A i \in 1..Len(Listed) :
              MarkedActive(Listed[i])
                 <=> (fnIn.stored # <<>> /\ Listed[i].envPath = normalize(fnIn.stored))

(***************************************************************************)
(* SpecParse: parseEnvOutput over subprocess outputs.                      *)
(***************************************************************************)
OutputAlphabet == {"k", "=", " ", "\n"}

InitParse ==
    /\ AtRest(FALSE)
    /\ fnIn \in SeqsUpTo(OutputAlphabet, MaxOutputLen)

ParseEnvOutput == Returns(parseEnvOutput(fnIn))

SpecParse == InitParse /\ [][ParseEnvOutput]_vars

\* the lines of the output that hold a '=', in order
AssignmentLines(s) == SelectSeq(NonBlankLines(s), LAMBDA line : includes(line, "="))

FirstEquals(line) ==
    CHOOSE i \in 1..Len(line) : line[i] = "=" /\ \A j \in 1..(i - 1) : line[j] # "="

RawName(line) == SubSeq(line, 1, FirstEquals(line) - 1)

RawValue(line) == SubSeq(line, FirstEquals(line) + 1, Len(line))

\* the mapping is the one the lines give when a line contributes Name(line)
\* and Value(line) and a later line replaces an earlier one of the same name
IsMappingOf(m, lines, Name(_), Value(_)) ==
    /\ \A i, j \in 1..Len(m) : m[i][1] = m[j][1] => i = j
    /\ ObjKeys(m) = {Name(lines[i]) : i \in 1..Len(lines)}
    /\ \A i \in 1..Len(lines) :
          (\A j \in (i + 1)..Len(lines) : Name(lines[j]) # Name(lines[i]))
             => ObjGet(m, Name(lines[i])) = Value(lines[i])

TrimmedName(line) == trim(RawName(line))

TrimmedValue(line) == trim(RawValue(line))

ValueAlphabet == {"v", "\"", "\\"}

Values == SeqsUpTo(ValueAlphabet, MaxValueLen)

Mappings ==
    {<<>>} \cup {<< <<(<<"A">>), v>> >> : v \in Values}
           \cup {<< <<(<<"A">>), v>>, <<(<<"B">>), w>> >> : v \in Values, w \in Values}

InitEnvFile ==
    /\ AtRest(FALSE)
    /\ fnIn \in Mappings

WriteEnvFile == Returns(envFileContent(fnIn))

SpecEnvFile == InitEnvFile /\ [][WriteEnvFile]_vars

\* a reader of NAME="value" lines: the value runs from the opening quote to
\* the first quote that no backslash escapes, and \" in it stands for a quote
RECURSIVE ReadValue(_, _, _)
ReadValue(s, i, acc) ==
    IF i > Len(s) THEN [ok |-> FALSE, value |-> acc, next |-> i]
    ELSE IF s[i] = "\\" /\ i < Len(s) /\ s[i + 1] = "\""
         THEN ReadValue(s, i + 2, Append(acc, "\""))
         ELSE IF s[i] = "\"" THEN [ok |-> TRUE, value |-> acc, next |-> i + 1]
              ELSE ReadValue(s, i + 1, Append(acc, s[i]))

\* the mapping read from s at position i on, or None for a malformed text
RECURSIVE ReadEnv(_, _, _)
ReadEnv(s, i, envs) ==
    IF i > Len(s) THEN Some(envs)
    ELSE IF ~(i + 2 <= Len(s) /\ s[i + 1] = "=" /\ s[i + 2] = "\"") THEN None
         ELSE LET v == ReadValue(s, i + 3, <<>>)
              IN  IF v.ok /\ v.next <= Len(s) /\ s[v.next] = "\n"
                  THEN ReadEnv(s, v.next + 1, Append(envs, <<(<<s[i]>>), v.value>>))
                  ELSE None

\* C10: the text writeEnvFile writes for a mapping, read back by a reader of
\* NAME="value" lines that unescapes \", is the mapping again.
C10_EnvFileRoundTrip == fnOut # None => ReadEnv(fnOut[1], 1, <<>>) = Some(fnIn)

(***************************************************************************)
(* SpecInterpreter: the value setEnvironment writes to                     *)
(* python.defaultInterpreterPath for an environment prefix and a workspace *)
(* folder, the interpreter being there.                                    *)
(***************************************************************************)
InterpreterRoots ==
    {<<"/", "w">>, <<"/", "w", "/", "p">>, <<"/", "r">>, <<"/", "W">>}

InterpreterPrefixes ==
    {<<"/", "w", "/", "e">>, <<"/", "w", "2", "/", "e">>, <<"/", "w", "/", "p", "/", "e">>,
     <<"/", "w", "/", "p", "q">>, <<"/", "r", "/", "a">>, <<"/", "W", "/", "e">>,
     <<"/", "w", "/", "/", "e">>, <<"/", "o">>}

InitInterpreter ==
    /\ \E win \in BOOLEAN : AtRest(win)
    /\ fnIn \in [prefix : InterpreterPrefixes, rootPath : InterpreterRoots]

InterpreterPath == Returns(finalPathOf(pythonPathOf(fnIn.prefix), fnIn.rootPath))

SpecInterpreter == InitInterpreter /\ [][InterpreterPath]_vars

\* the directories on the way to a path
DirsOf(p) == normalizeString(Segments(p), <<>>, FALSE)

SameName(a, b) == IF isWin THEN toLowerCase(a) = toLowerCase(b) ELSE a = b

\* the path lies in the directory or below it
LiesUnder(p, dir) ==
    /\ Len(DirsOf(dir)) <= Len(DirsOf(p))
    /\ \A i \in 1..Len(DirsOf(dir)) : SameName(DirsOf(p)[i], DirsOf(dir)[i])

RECURSIVE SlashJoined(_)
SlashJoined(segs) ==
    IF segs = <<>> THEN <<>>
    ELSE IF Len(segs) = 1 THEN segs[1]
         ELSE segs[1] \o <<"/">> \o SlashJoined(Tail(segs))

\* C12: the interpreter path is written as ${workspaceFolder}/<path relative
\* to the project directory> when the interpreter lies under the project
\* directory, and as the absolute path when it does not.
C12_RelativeIffUnderProject ==
    fnOut # None =>
        fnOut[1] = IF LiesUnder(pythonPathOf(fnIn.prefix), fnIn.rootPath)
                   THEN <<"${workspaceFolder}", "/">>
                        \o SlashJoined(SubSeq(DirsOf(pythonPathOf(fnIn.prefix)),
                                               Len(DirsOf(fnIn.rootPath)) + 1,
                                               Len(DirsOf(pythonPathOf(fnIn.prefix)))))
                   ELSE pythonPathOf(fnIn.prefix)

(***************************************************************************)
(* SpecShell: fetchMambaVarsFromShell over the two variables of the shell. *)
(***************************************************************************)
EchoedRoots ==
    {<<>>, <<"/", "r">>, <<"/", "m", " ", "r">>, <<"/", "home", "/", "u", "/", "mm">>,
     <<"C:", "\\", "mm">>, <<"r">>}

EchoedExes ==
    {<<>>, <<"/home/u/micromamba">>, <<"/", "x", "/", "mm">>, <<"micromamba.exe">>,
     <<"/", "m", " ", "r", "/", "mm">>}

InitShell ==
    /\ \E win \in BOOLEAN : AtRest(win)
    /\ fnIn \in [rootVar : EchoedRoots, exeVar : EchoedExes]

FetchMambaVars == Returns(fetchMambaVarsFromShell(shellStdout(fnIn.rootVar, fnIn.exeVar)))

SpecShell == InitShell /\ [][FetchMambaVars]_vars

\* C15: fetchMambaVarsFromShell returns the value echoed first as root prefix
\* and the value echoed second as executable, either of them possibly empty.
C15_DiscoveryIsPositional ==
    fnOut # None =>
        /\ fnOut[1].rootPrefix = fnIn.rootVar
        /\ fnOut[1].exe = fnIn.exeVar

====
